---- MODULE Spec2Model ----
(***************************************************************************)
(* Model of the selection tracker and splicer of TextEditor (src/app.py):  *)
(* the two offsets selection_start / selection_end, the controller's       *)
(* document, and the handlers new_document, clear_document,                *)
(* copy_to_context and apply_modified.  Texts are finite sequences of      *)
(* characters; the handlers' str operations (strip, find, slicing,         *)
(* concatenation) are modelled by what Python computes.                    *)
(***************************************************************************)
EXTENDS Integers, Sequences, FiniteSets, TLC

\* ---------------------------------------------------------------- bounds
\* longest text passed as source_text / selected_text / context_text
MaxLen == 3
\* longest text passed as modification_text
MaxModLen == 1
\* UI sessions open on the running application
MaxSessions == 2
\* longest source / selected / context text passed when sessions interleave
MaxSessionLen == 2
\* longest prompt typed into the multimodal textbox, longest transcript
MaxPromptLen == 1
\* most files uploaded with one prompt
MaxFiles == 1
\* most lines in an output of the research agent
MaxLines == 3
\* most objects in the document collection
MaxObjects == 2
\* longest source / context / modified text, file name or URL in the UI
\* when an AI action, a generation from a URL or a save runs
MaxPanelLen == 1

\* ------------------------------------------------------------ characters
\* one non-whitespace character and one whitespace character are enough to
\* tell blank from non-blank, found from not found, first from later match
Whitespace == {" "}
Chars == {"a", " "}

RECURSIVE TextsOfLen(_)
TextsOfLen(n) ==
    IF n = 0 THEN {<<>>}
    ELSE {Append(t, c) : t \in TextsOfLen(n - 1), c \in Chars}

TextsUpTo(n) == UNION {TextsOfLen(k) : k \in 0..n}

SourceTexts == TextsUpTo(MaxLen)
ModTexts == TextsUpTo(MaxModLen)
SessionTexts == TextsUpTo(MaxSessionLen)

\* ------------------------------------------------- Python str operations
Min(x, y) == IF x < y THEN x ELSE y
Max(x, y) == IF x > y THEN x ELSE y

\* not s.strip(): s is empty or made of whitespace only
IsBlank(s) == \A i \in 1..Len(s) : s[i] \in Whitespace

\* s[a:b] for a, b >= 0 (0-based, half open, both ends clamped to len(s))
Slice(s, a, b) ==
    LET lo == Min(a, Len(s))
        hi == Min(b, Len(s))
    IN  IF lo >= hi THEN <<>> ELSE SubSeq(s, lo + 1, hi)

\* s[:a] and s[b:]
Prefix(s, a) == Slice(s, 0, a)
Suffix(s, b) == Slice(s, b, Len(s))

\* sub occurs in s at 0-based index i
OccursAt(s, sub, i) ==
    /\ i >= 0
    /\ i + Len(sub) <= Len(s)
    /\ SubSeq(s, i + 1, i + Len(sub)) = sub

\* (mutation) the index of the occurrence is counted from 1
Find_OneBased(s, sub) ==
    LET hits == {i \in 0..Len(s) : OccursAt(s, sub, i)}
    IN  IF hits = {} THEN -1
        ELSE 1 + CHOOSE i \in hits : \A j \in hits : i <= j

\* (mutation) rfind: the highest index of an occurrence
Find_Last(s, sub) ==
    LET hits == {i \in 0..Len(s) : OccursAt(s, sub, i)}
    IN  IF hits = {} THEN -1
        ELSE CHOOSE i \in hits : \A j \in hits : i >= j

\* s.find(sub): the lowest index of an occurrence, -1 when there is none
Find(s, sub) ==
    LET hits == {i \in 0..Len(s) : OccursAt(s, sub, i)}
    IN  IF hits = {} THEN -1
        ELSE CHOOSE i \in hits : \A j \in hits : i <= j

\* ------------------------------------------------------------------ state
VARIABLES
    selection_start,   \* TextEditor.selection_start
    selection_end,     \* TextEditor.selection_end
    document,          \* TextEditor.document: [text, footnotes]
    captured,          \* context returned by the capture that set the
                       \* current offsets; NoText after a reset
    captured_from,     \* source_text of that capture, where the
                       \* specification tracks it; NoText otherwise
    owner,             \* UI session whose capture set the current offsets;
                       \* NoSession after a reset
    applied,           \* context_text of the call before, when that call
                       \* was a successful apply_modified; NoText otherwise
    pc,                \* "idle": waiting for the next UI event;
                       \* "done": a handler has returned
    op,                \* the handler that returned
    session,           \* the UI session whose event it handled
    in_source,         \* its source_text argument
    in_text,           \* its selected_text / context_text argument
    in_mod,            \* its modification_text argument
    in_extra,          \* its other arguments
    pre_start,         \* selection_start when it was called
    pre_end,           \* selection_end when it was called
    pre_doc,           \* document when it was called
    ret,               \* the text(s) it returned
    outcome,           \* which branch it returned from, or "raised"
    calls,             \* the external services it called
    ctx_captured,      \* apply_modified: context_text was the captured one
    src_captured,      \* apply_modified: source_text was the one captured
                       \* from
    ctx_applied,       \* apply_modified: the call before was a successful
                       \* apply_modified with this same context_text
    store              \* the objects of the document collection, in the
                       \* order of their insertion

editor == <<selection_start, selection_end, document, captured,
            captured_from, owner, applied>>
call == <<op, session, in_source, in_text, in_mod, in_extra, pre_start,
          pre_end, pre_doc, ret, outcome, calls, ctx_captured, src_captured,
          ctx_applied>>
vars == <<editor, pc, call, store>>

NoText == <<"none">>
NoSession == 0
NoExtra == <<>>

\* TextDocument(): empty text, no footnotes
TextDocument == [text |-> <<>>, footnotes |-> <<>>]

\* TextDocument.update_text
update_text(doc, new_text) == [doc EXCEPT !.text = new_text]

\* no handler has returned
NoCall ==
    /\ op = "none"
    /\ session = NoSession
    /\ in_source = <<>>
    /\ in_text = <<>>
    /\ in_mod = <<>>
    /\ in_extra = NoExtra
    /\ pre_start = 0
    /\ pre_end = 0
    /\ pre_doc = TextDocument
    /\ ret = <<>>
    /\ outcome = "none"
    /\ calls = {}
    /\ ctx_captured = FALSE
    /\ src_captured = FALSE
    /\ ctx_applied = FALSE

\* TextEditor.__init__
Init ==
    /\ selection_start = 0
    /\ selection_end = 0
    /\ document = TextDocument
    /\ captured = NoText
    /\ captured_from = NoText
    /\ owner = NoSession
    /\ applied = NoText
    /\ pc = "idle"
    /\ NoCall
    /\ store = <<>>

\* ---------------------------------------------------------- the handlers
\* (mutation) the selection is tested for emptiness without strip()
TextToCopy_NoStrip(source_text, selected_text) ==
    IF selected_text # <<>> THEN selected_text ELSE source_text

\* copy_to_context, line 54: selected_text if selected_text.strip() else
\* source_text
TextToCopy(source_text, selected_text) ==
    IF ~IsBlank(selected_text) THEN selected_text ELSE source_text

\* (mutation) end_idx is the length of the selection, start_idx not added
copy_to_context_EndIsLength(source_text, selected_text, s, e) ==
    LET text_to_copy == TextToCopy(source_text, selected_text)
        start_idx == Find(source_text, text_to_copy)
    IN  IF IsBlank(text_to_copy)
        THEN [start |-> s, end |-> e, ret |-> <<>>,
              outcome |-> "nothing_to_copy"]
        ELSE IF text_to_copy # source_text /\ ~IsBlank(text_to_copy)
        THEN IF start_idx # -1
             THEN [start |-> start_idx,
                   end |-> Len(text_to_copy),
                   ret |-> text_to_copy, outcome |-> "selection"]
             ELSE [start |-> 0, end |-> Len(source_text),
                   ret |-> source_text, outcome |-> "not_found"]
        ELSE [start |-> 0, end |-> Len(source_text),
              ret |-> source_text, outcome |-> "full_text"]

\* (mutation) the result of find is used without the test for -1
copy_to_context_NoFoundTest(source_text, selected_text, s, e) ==
    LET text_to_copy == TextToCopy(source_text, selected_text)
        start_idx == Find(source_text, text_to_copy)
    IN  IF IsBlank(text_to_copy)
        THEN [start |-> s, end |-> e, ret |-> <<>>,
              outcome |-> "nothing_to_copy"]
        ELSE IF text_to_copy # source_text /\ ~IsBlank(text_to_copy)
        THEN [start |-> start_idx,
              end |-> start_idx + Len(text_to_copy),
              ret |-> text_to_copy,
              outcome |-> IF start_idx # -1 THEN "selection"
                          ELSE "not_found"]
        ELSE [start |-> 0, end |-> Len(source_text),
              ret |-> source_text, outcome |-> "full_text"]

\* (mutation) the full-text branch sets selection_end only
copy_to_context_FullKeepsStart(source_text, selected_text, s, e) ==
    LET text_to_copy == TextToCopy(source_text, selected_text)
        start_idx == Find(source_text, text_to_copy)
    IN  IF IsBlank(text_to_copy)
        THEN [start |-> s, end |-> e, ret |-> <<>>,
              outcome |-> "nothing_to_copy"]
        ELSE IF text_to_copy # source_text /\ ~IsBlank(text_to_copy)
        THEN IF start_idx # -1
             THEN [start |-> start_idx,
                   end |-> start_idx + Len(text_to_copy),
                   ret |-> text_to_copy, outcome |-> "selection"]
             ELSE [start |-> 0, end |-> Len(source_text),
                   ret |-> source_text, outcome |-> "not_found"]
        ELSE [start |-> s, end |-> Len(source_text),
              ret |-> source_text, outcome |-> "full_text"]

\* (mutation) the text to copy is tested for emptiness without strip()
copy_to_context_EmptyTest(source_text, selected_text, s, e) ==
    LET text_to_copy == TextToCopy(source_text, selected_text)
        start_idx == Find(source_text, text_to_copy)
    IN  IF text_to_copy = <<>>
        THEN [start |-> s, end |-> e, ret |-> <<>>,
              outcome |-> "nothing_to_copy"]
        ELSE IF text_to_copy # source_text /\ ~IsBlank(text_to_copy)
        THEN IF start_idx # -1
             THEN [start |-> start_idx,
                   end |-> start_idx + Len(text_to_copy),
                   ret |-> text_to_copy, outcome |-> "selection"]
             ELSE [start |-> 0, end |-> Len(source_text),
                   ret |-> source_text, outcome |-> "not_found"]
        ELSE [start |-> 0, end |-> Len(source_text),
              ret |-> source_text, outcome |-> "full_text"]

\* copy_to_context: the offsets it leaves, the context text it returns and
\* the branch it returns from, given the offsets (s, e) it was called with
copy_to_context(source_text, selected_text, s, e) ==
    LET text_to_copy == TextToCopy(source_text, selected_text)
        start_idx == Find(source_text, text_to_copy)
    IN  IF IsBlank(text_to_copy)
        THEN [start |-> s, end |-> e, ret |-> <<>>,
              outcome |-> "nothing_to_copy"]
        ELSE IF text_to_copy # source_text /\ ~IsBlank(text_to_copy)
        THEN IF start_idx # -1
             THEN [start |-> start_idx,
                   end |-> start_idx + Len(text_to_copy),
                   ret |-> text_to_copy, outcome |-> "selection"]
             ELSE [start |-> 0, end |-> Len(source_text),
                   ret |-> source_text, outcome |-> "not_found"]
        ELSE [start |-> 0, end |-> Len(source_text),
              ret |-> source_text, outcome |-> "full_text"]

\* (mutation) the start offset may equal the length of the source text
InvalidIndices_Strict(source_text, s, e) ==
    s < 0 \/ e < 0 \/ s > Len(source_text)

\* apply_modified, line 100: the index validation
InvalidIndices(source_text, s, e) ==
    s < 0 \/ e < 0 \/ s >= Len(source_text)

\* apply_modified, lines 105-109: the region the clamped offsets select
SelectedRegion(source_text, s, e) ==
    Slice(source_text, Max(0, s), Min(Len(source_text), e))

\* (mutation) the verification compares lengths only
Mismatch_LengthOnly(source_text, context_text, s, e) ==
    Len(SelectedRegion(source_text, s, e)) # Len(context_text)

\* (mutation) the verification accepts a region that context_text starts with
Mismatch_PrefixOnly(source_text, context_text, s, e) ==
    LET region == SelectedRegion(source_text, s, e)
    IN  ~(/\ Len(region) <= Len(context_text)
          /\ SubSeq(context_text, 1, Len(region)) = region)

\* (mutation) the verification looks for context_text anywhere in source_text
Mismatch_NotContained(source_text, context_text, s, e) ==
    ~\E i \in 0..Len(source_text) : OccursAt(source_text, context_text, i)

\* apply_modified, line 110: selected_region != context_text
Mismatch(source_text, context_text, s, e) ==
    SelectedRegion(source_text, s, e) # context_text

\* (mutation) the replacement keeps the selected region after the new text
Splice_InsertOnly(source_text, modification_text, s, e) ==
    LET start_idx == Max(0, s)
    IN  Prefix(source_text, start_idx) \o modification_text
            \o Suffix(source_text, start_idx)

\* apply_modified, line 115: the replacement
Splice(source_text, modification_text, s, e) ==
    LET start_idx == Max(0, s)
        end_idx == Min(Len(source_text), e)
    IN  Prefix(source_text, start_idx) \o modification_text
            \o Suffix(source_text, end_idx)

\* (mutation) a refusal returns an empty text
Refused_ReturnsEmpty(source_text, s, e, doc, why) ==
    [start |-> s, end |-> e, document |-> doc, ret |-> <<>>, outcome |-> why]

\* (mutation) a refusal resets the offsets
Refused_ResetsOffsets(source_text, s, e, doc, why) ==
    [start |-> 0, end |-> 0, document |-> doc, ret |-> source_text,
     outcome |-> why]

\* apply_modified, lines 93, 97, 102, 112: a refusal returns source_text and
\* changes nothing
Refused(source_text, s, e, doc, why) ==
    [start |-> s, end |-> e, document |-> doc, ret |-> source_text,
     outcome |-> why]

\* (mutation) only selection_start is reset after applying
Applied_KeepsEnd(source_text, modification_text, s, e, doc) ==
    LET new_source == Splice(source_text, modification_text, s, e)
    IN  [start |-> 0, end |-> e,
         document |-> update_text(doc, new_source),
         ret |-> new_source, outcome |-> "applied"]

\* (mutation) the offsets are not reset after applying
Applied_KeepsOffsets(source_text, modification_text, s, e, doc) ==
    LET new_source == Splice(source_text, modification_text, s, e)
    IN  [start |-> s, end |-> e,
         document |-> update_text(doc, new_source),
         ret |-> new_source, outcome |-> "applied"]

\* (mutation) the offsets are reset to -1 after applying
Applied_ResetsBelowZero(source_text, modification_text, s, e, doc) ==
    LET new_source == Splice(source_text, modification_text, s, e)
    IN  [start |-> -1, end |-> -1,
         document |-> update_text(doc, new_source),
         ret |-> new_source, outcome |-> "applied"]

\* apply_modified, lines 114-123: the splice is applied, the document is
\* updated and the offsets are reset
Applied(source_text, modification_text, s, e, doc) ==
    LET new_source == Splice(source_text, modification_text, s, e)
    IN  [start |-> 0, end |-> 0,
         document |-> update_text(doc, new_source),
         ret |-> new_source, outcome |-> "applied"]

\* (mutation) the modified text is tested before the context text
apply_modified_ModFirst(source_text, context_text, modification_text, s, e, doc) ==
    IF IsBlank(modification_text)
    THEN Refused(source_text, s, e, doc, "no_modified")
    ELSE IF IsBlank(context_text)
    THEN Refused(source_text, s, e, doc, "no_context")
    ELSE IF InvalidIndices(source_text, s, e)
    THEN Refused(source_text, s, e, doc, "invalid_indices")
    ELSE IF Mismatch(source_text, context_text, s, e)
    THEN Refused(source_text, s, e, doc, "mismatch")
    ELSE Applied(source_text, modification_text, s, e, doc)

\* apply_modified: the offsets and document it leaves, the source text it
\* returns and the branch it returns from, given the offsets (s, e) and the
\* document doc it was called with
apply_modified(source_text, context_text, modification_text, s, e, doc) ==
    IF IsBlank(context_text)
    THEN Refused(source_text, s, e, doc, "no_context")
    ELSE IF IsBlank(modification_text)
    THEN Refused(source_text, s, e, doc, "no_modified")
    ELSE IF InvalidIndices(source_text, s, e)
    THEN Refused(source_text, s, e, doc, "invalid_indices")
    ELSE IF Mismatch(source_text, context_text, s, e)
    THEN Refused(source_text, s, e, doc, "mismatch")
    ELSE Applied(source_text, modification_text, s, e, doc)

Refusals == {"no_context", "no_modified", "invalid_indices", "mismatch"}

\* ---------------------------------------------------------------- actions
\* the one UI session of the specifications that leave sessions aside
Solo == 1

\* a handler of the selection tracker is called by session u and returns:
\* the part of the record every such handler fills the same way
TrackerCall(u, h) ==
    /\ pc = "idle"
    /\ pc' = "done"
    /\ op' = h
    /\ session' = u
    /\ in_extra' = NoExtra
    /\ pre_start' = selection_start
    /\ pre_end' = selection_end
    /\ pre_doc' = document
    /\ calls' = {}
    /\ UNCHANGED store

\* new_document called by session u: fresh document, offsets reset, empty
\* text areas returned
NewDocumentBy(u) ==
    /\ TrackerCall(u, "new_document")
    /\ document' = TextDocument
    /\ selection_start' = 0
    /\ selection_end' = 0
    /\ captured' = NoText
    /\ captured_from' = NoText
    /\ owner' = NoSession
    /\ applied' = NoText
    /\ in_source' = <<>> /\ in_text' = <<>> /\ in_mod' = <<>>
    /\ ret' = <<>>
    /\ outcome' = "created"
    /\ ctx_captured' = FALSE
    /\ src_captured' = FALSE
    /\ ctx_applied' = FALSE

\* clear_document called by session u: fresh document, offsets reset, empty
\* text areas returned
ClearDocumentBy(u) ==
    /\ TrackerCall(u, "clear_document")
    /\ document' = TextDocument
    /\ selection_start' = 0
    /\ selection_end' = 0
    /\ captured' = NoText
    /\ captured_from' = NoText
    /\ owner' = NoSession
    /\ applied' = NoText
    /\ in_source' = <<>> /\ in_text' = <<>> /\ in_mod' = <<>>
    /\ ret' = <<>>
    /\ outcome' = "cleared"
    /\ ctx_captured' = FALSE
    /\ src_captured' = FALSE
    /\ ctx_applied' = FALSE

\* copy_to_context(source_text, selected_text) called by session u with
\* texts of the set Texts; track: the specification records the source text
\* captured from
CopyToContextBy(u, Texts, track) ==
    /\ TrackerCall(u, "copy_to_context")
    /\ \E source_text \in Texts, selected_text \in Texts :
        LET r == copy_to_context(source_text, selected_text,
                                 selection_start, selection_end)
            stored == r.outcome # "nothing_to_copy"
        IN  /\ selection_start' = r.start
            /\ selection_end' = r.end
            /\ captured' = IF stored THEN r.ret ELSE captured
            /\ captured_from' = IF stored /\ track THEN source_text
                                ELSE IF stored THEN NoText
                                ELSE captured_from
            /\ owner' = IF stored THEN u ELSE owner
            /\ applied' = NoText
            /\ in_source' = source_text
            /\ in_text' = selected_text
            /\ in_mod' = <<>>
            /\ ret' = r.ret
            /\ outcome' = r.outcome
            /\ ctx_captured' = FALSE
            /\ src_captured' = FALSE
            /\ ctx_applied' = FALSE
            /\ UNCHANGED document

\* apply_modified(source_text, context_text, modification_text) called by
\* session u with texts of the sets Texts and Mods
ApplyModifiedBy(u, Texts, Mods) ==
    /\ TrackerCall(u, "apply_modified")
    /\ \E source_text \in Texts, context_text \in Texts,
          modification_text \in Mods :
        LET r == apply_modified(source_text, context_text, modification_text,
                                selection_start, selection_end, document)
            done == r.outcome = "applied"
        IN  /\ selection_start' = r.start
            /\ selection_end' = r.end
            /\ document' = r.document
            /\ captured' = IF done THEN NoText ELSE captured
            /\ captured_from' = IF done THEN NoText ELSE captured_from
            /\ owner' = IF done THEN NoSession ELSE owner
            /\ applied' = IF done THEN context_text ELSE NoText
            /\ in_source' = source_text
            /\ in_text' = context_text
            /\ in_mod' = modification_text
            /\ ret' = r.ret
            /\ outcome' = r.outcome
            /\ ctx_captured' = (captured = context_text)
            /\ src_captured' = (captured_from = source_text)
            /\ ctx_applied' = (applied = context_text)

NewDocument == NewDocumentBy(Solo)
ClearDocument == ClearDocumentBy(Solo)
CopyToContext == CopyToContextBy(Solo, SourceTexts, FALSE)
ApplyModified == ApplyModifiedBy(Solo, SourceTexts, ModTexts)

\* the handler's return values have been delivered to the output components;
\* the dispatcher waits for the next event
NextEvent ==
    /\ pc = "done"
    /\ pc' = "idle"
    /\ op' = "none"
    /\ session' = NoSession
    /\ in_source' = <<>> /\ in_text' = <<>> /\ in_mod' = <<>>
    /\ in_extra' = NoExtra
    /\ pre_start' = 0
    /\ pre_end' = 0
    /\ pre_doc' = TextDocument
    /\ ret' = <<>>
    /\ outcome' = "none"
    /\ calls' = {}
    /\ ctx_captured' = FALSE
    /\ src_captured' = FALSE
    /\ ctx_applied' = FALSE
    /\ UNCHANGED <<editor, store>>

Next ==
    \/ NewDocument
    \/ ClearDocument
    \/ CopyToContext
    \/ ApplyModified
    \/ NextEvent

Spec == Init /\ [][Next]_vars

\* the selection tracker with the source text of each capture recorded
FlowCopyToContext == CopyToContextBy(Solo, SourceTexts, TRUE)

NextFlow ==
    \/ NewDocument
    \/ ClearDocument
    \/ FlowCopyToContext
    \/ ApplyModified
    \/ NextEvent

SpecFlow == Init /\ [][NextFlow]_vars

\* the UI sessions: create_interface builds one TextEditor and wires every
\* session's buttons to its methods
Sessions == 1..MaxSessions

SessionNewDocument == \E u \in Sessions : NewDocumentBy(u)
SessionClearDocument == \E u \in Sessions : ClearDocumentBy(u)
SessionCopyToContext ==
    \E u \in Sessions : CopyToContextBy(u, SessionTexts, FALSE)
SessionApplyModified ==
    \E u \in Sessions : ApplyModifiedBy(u, SessionTexts, ModTexts)

NextSessions ==
    \/ SessionNewDocument
    \/ SessionClearDocument
    \/ SessionCopyToContext
    \/ SessionApplyModified
    \/ NextEvent

SpecSessions == Init /\ [][NextSessions]_vars

\* ------------------------------------------------------- the audio input
\* Python's None
None == <<"None">>

\* the result of an external call that raises instead of returning
Raised == <<"raised">>

\* s.strip(): s without its leading and trailing whitespace
Strip(s) ==
    LET solid == {i \in 1..Len(s) : s[i] \notin Whitespace}
    IN  IF solid = {} THEN <<>>
        ELSE SubSeq(s, CHOOSE i \in solid : \A j \in solid : i <= j,
                       CHOOSE i \in solid : \A j \in solid : i >= j)

\* CONFIG.SUPPORTED_AUDIO_FORMATS, returned by get_supported_formats()
SupportedFormats == {".wav", ".mp3", ".m4a", ".flac", ".ogg"}

\* Path(file_path).suffix of the uploaded files: supported, supported in
\* another case, unsupported, and none
Suffixes ==
    {".wav", ".WAV", ".Mp3", ".M4A", ".flac", ".ogg", ".txt", ".TXT", ""}

\* suffix.lower()
Lower(suffix) ==
    CASE suffix = ".WAV" -> ".wav"
      [] suffix = ".Mp3" -> ".mp3"
      [] suffix = ".M4A" -> ".m4a"
      [] suffix = ".TXT" -> ".txt"
      [] OTHER -> suffix

\* a path handed to the audio processor: whether the file is there, and its
\* suffix
Files == [exists : BOOLEAN, suffix : Suffixes]

\* the file is there and its lower-cased suffix is a supported format
Allowed(file) == file.exists /\ Lower(file.suffix) \in SupportedFormats

RECURSIVE FileListsOfLen(_)
FileListsOfLen(n) ==
    IF n = 0 THEN {<<>>}
    ELSE {Append(l, f) : l \in FileListsOfLen(n - 1), f \in Files}

FileLists == UNION {FileListsOfLen(k) : k \in 0..MaxFiles}

PromptTexts == TextsUpTo(MaxPromptLen)

\* what client.speech_to_text.convert does: a transcript, or it raises
TranscriberResults == PromptTexts \cup {Raised}

\* a call of an external service and whether it returned or raised
Called(service, result) ==
    {<<service, IF result = Raised THEN "failed" ELSE "ok">>}

\* (mutation) the file is not tested for existence
process_audio_file_NoExistsTest(file, transcript) ==
    IF Lower(file.suffix) \notin SupportedFormats
    THEN [ret |-> None, calls |-> {}, outcome |-> "not_transcribed"]
    ELSE IF transcript = Raised
    THEN [ret |-> None, calls |-> Called("transcriber", transcript),
          outcome |-> "raised"]
    ELSE [ret |-> transcript, calls |-> Called("transcriber", transcript),
          outcome |-> "transcribed"]

\* AudioProcessor.process_audio_file(file_path), the transcriber answering
\* with transcript
process_audio_file(file, transcript) ==
    IF ~file.exists \/ Lower(file.suffix) \notin SupportedFormats
    THEN [ret |-> None, calls |-> {}, outcome |-> "not_transcribed"]
    ELSE IF transcript = Raised
    THEN [ret |-> None, calls |-> Called("transcriber", transcript),
          outcome |-> "raised"]
    ELSE [ret |-> transcript, calls |-> Called("transcriber", transcript),
          outcome |-> "transcribed"]

\* the loop of _extract_prompt_from_multimodal over files[1..n]: the text
\* transcribed so far, the calls made, and whether a call raised
RECURSIVE Transcribe(_, _, _)
Transcribe(files, transcripts, n) ==
    IF n = 0 THEN [text |-> <<>>, calls |-> {}, raised |-> FALSE]
    ELSE
      LET before == Transcribe(files, transcripts, n - 1)
          r == process_audio_file(files[n], transcripts[n])
      IN  IF before.raised THEN before
          ELSE IF Lower(files[n].suffix) \notin SupportedFormats THEN before
          ELSE IF r.outcome = "raised"
          THEN [before EXCEPT !.calls = @ \cup r.calls, !.raised = TRUE]
          ELSE IF r.ret \in {None, <<>>}
          THEN [before EXCEPT !.calls = @ \cup r.calls]
          ELSE [text |-> IF before.text # <<>>
                         THEN before.text \o <<" ">> \o Strip(r.ret)
                         ELSE Strip(r.ret),
                calls |-> before.calls \cup r.calls,
                raised |-> FALSE]

\* the answers of the transcriber that can make a difference: one for each
\* file passed to it
RECURSIVE TranscriptsFor(_)
TranscriptsFor(files) ==
    IF files = <<>> THEN {<<>>}
    ELSE LET last == files[Len(files)]
         IN  {Append(ts, t) :
                 ts \in TranscriptsFor(SubSeq(files, 1, Len(files) - 1)),
                 t \in IF Allowed(last) THEN TranscriberResults ELSE {<<>>}}

\* the multimodal textbox: a typed prompt and a list of uploaded files
MultimodalInputs == [text : PromptTexts, files : FileLists]

\* TextEditor._extract_prompt_from_multimodal
extract_prompt_from_multimodal(multimodal_input, transcripts) ==
    LET t == Transcribe(multimodal_input.files, transcripts,
                        Len(multimodal_input.files))
    IN  [prompt |-> Strip(t.text \o <<" ">> \o multimodal_input.text),
         calls |-> t.calls,
         raised |-> t.raised]

\* (mutation) the call resets the selection offsets
ServiceCall_ResetsOffsets(h) ==
    /\ pc = "idle"
    /\ pc' = "done"
    /\ op' = h
    /\ session' = Solo
    /\ pre_start' = selection_start
    /\ pre_end' = selection_end
    /\ pre_doc' = document
    /\ applied' = NoText
    /\ ctx_captured' = FALSE
    /\ src_captured' = FALSE
    /\ ctx_applied' = FALSE
    /\ selection_start' = 0
    /\ selection_end' = 0
    /\ UNCHANGED <<captured, captured_from, owner>>

\* a method that leaves the selection tracker alone is called and returns or
\* raises: the part of the record every such call fills the same way
ServiceCall(h) ==
    /\ pc = "idle"
    /\ pc' = "done"
    /\ op' = h
    /\ session' = Solo
    /\ pre_start' = selection_start
    /\ pre_end' = selection_end
    /\ pre_doc' = document
    /\ applied' = NoText
    /\ ctx_captured' = FALSE
    /\ src_captured' = FALSE
    /\ ctx_applied' = FALSE
    /\ UNCHANGED <<selection_start, selection_end, captured, captured_from,
                   owner>>

\* process_audio_file is called on a path
ProcessAudioFile ==
    /\ ServiceCall("process_audio_file")
    /\ \E file \in Files, transcript \in TranscriberResults :
           LET r == process_audio_file(file, transcript)
           IN  /\ in_source' = <<>> /\ in_text' = <<>> /\ in_mod' = <<>>
               /\ in_extra' = <<file>>
               /\ ret' = r.ret
               /\ outcome' = r.outcome
               /\ calls' = r.calls
               /\ UNCHANGED <<document, store>>

\* _extract_prompt_from_multimodal is called on the content of the
\* multimodal textbox
ExtractPromptFromMultimodal ==
    /\ ServiceCall("_extract_prompt_from_multimodal")
    /\ \E multimodal_input \in MultimodalInputs :
         \E transcripts \in TranscriptsFor(multimodal_input.files) :
           LET r == extract_prompt_from_multimodal(multimodal_input,
                                                   transcripts)
           IN  /\ in_source' = <<>> /\ in_text' = <<>> /\ in_mod' = <<>>
               /\ in_extra' = <<multimodal_input>>
               /\ ret' = IF r.raised THEN None ELSE r.prompt
               /\ outcome' = IF r.raised THEN "raised" ELSE "extracted"
               /\ calls' = r.calls
               /\ UNCHANGED <<document, store>>

NextAudio ==
    \/ ProcessAudioFile
    \/ ExtractPromptFromMultimodal
    \/ NextEvent

SpecAudio == Init /\ [][NextAudio]_vars

\* ------------------------------------------------------ the document store
\* characters that separate the words of a text, whitespace apart
Punctuation == {"("}

\* the words of a text, as the keyword search of the collection sees them
Words(text) ==
    LET Separator(i) == text[i] \in Whitespace \cup Punctuation
    IN  {SubSeq(text, i, j) : <<i, j>> \in
            {p \in (1..Len(text)) \X (1..Len(text)) :
                /\ p[1] <= p[2]
                /\ \A k \in p[1]..p[2] : ~Separator(k)
                /\ p[1] = 1 \/ Separator(p[1] - 1)
                /\ p[2] = Len(text) \/ Separator(p[2] + 1)}}

\* save_document's data_object: the properties of a stored object that
\* depend on the document and the title (summary, keywords, word count and
\* dates do not reach the editor again)
StoredObject(doc, title) ==
    [title |-> title, content |-> doc.text, footnotes |-> doc.footnotes]

\* the object shares a word with the query in its title or content
Matches(object, query) ==
    Words(query) \cap (Words(object.title) \cup Words(object.content)) # {}

\* what collection.query.bm25(query=title, limit=1) can return: no object
\* (0), or the object the collection ranks first among those that match
Hits(objects, title) ==
    LET matching == {i \in 1..Len(objects) : Matches(objects[i], title)}
    IN  IF matching = {} THEN {0} ELSE matching

\* StorageManager._find_by_title: the position of the hit when its title is
\* the one looked for, 0 for None
find_by_title(objects, title, hit) ==
    IF hit # 0 /\ objects[hit].title = title THEN hit ELSE 0

\* StorageManager.save_document: the collection after the update or insert
save_document(objects, doc, title, hit) ==
    LET existing == find_by_title(objects, title, hit)
    IN  IF existing # 0
        THEN [objects EXCEPT ![existing] = StoredObject(doc, title)]
        ELSE Append(objects, StoredObject(doc, title))

\* load_document returns None
NoDocument == [text |-> None, footnotes |-> <<>>]

\* StorageManager.load_document
load_document(objects, title, hit) ==
    LET found == find_by_title(objects, title, hit)
    IN  IF found # 0
        THEN [text |-> objects[found].content,
              footnotes |-> objects[found].footnotes]
        ELSE NoDocument

\* what StorageManager.search_documents can return: titles of stored
\* objects, as the vector search of the collection selects them
RECURSIVE SearchAnswers(_)
SearchAnswers(objects) ==
    IF objects = <<>> THEN {<<>>}
    ELSE LET rest == SearchAnswers(SubSeq(objects, 1, Len(objects) - 1))
         IN  rest \cup {Append(ts, objects[Len(objects)].title) : ts \in rest}

\* -------------------------------------------------- the AI actions, saving
PanelTexts == TextsUpTo(MaxPanelLen)

\* the multimodal textbox has delivered no value
NoInput == [text |-> None, files |-> <<>>]

\* {"text": "", "files": []}, which execute_action returns to empty the
\* multimodal textbox
ClearedInput == [text |-> <<>>, files |-> <<>>]

\* the footnote lists an agent can return
FootnoteLists == {<<>>, <<"[1]">>}

\* TextDocument.update_footnotes
update_footnotes(doc, new_footnotes) ==
    [doc EXCEPT !.footnotes = new_footnotes]

\* TextEditor._format_footnotes: one row per footnote, or the placeholder row
format_footnotes(doc) ==
    IF doc.footnotes # <<>>
    THEN [i \in 1..Len(doc.footnotes) |-> <<TRUE, i, doc.footnotes[i]>>]
    ELSE << <<FALSE, 0, "No footnotes available">> >>

\* what prep_agent.generate_text does: it raises, or returns the stripped
\* article and its citations
ResearchResults ==
    [raised : BOOLEAN,
     text : {Strip(t) : t \in PanelTexts},
     footnotes : FootnoteLists]

\* what mod_agent.modify_text does: it raises, or returns the stripped
\* modified text
ModificationResults == {Strip(t) : t \in PanelTexts} \cup {Raised}

\* what storage_manager.save_document does: it raises, or returns True
StoreResults == {"raised", "saved"}

\* the research / modification panel selector, and any other value
Panels == {"preparation", "modification", "other"}

\* a handler raises after the calls made so far; the controller's document
\* is the one it had reached
Raises(made, doc) ==
    [ret |-> None, outcome |-> "raised", calls |-> made, doc |-> doc]

\* TextEditor._generate_text, its first and third return value
generate_text(research, made, doc) ==
    IF research.raised
    THEN Raises(made \cup {<<"research_agent", "failed">>}, doc)
    ELSE LET d == update_footnotes(doc, research.footnotes)
         IN  [ret |-> <<research.text, format_footnotes(d)>>,
              outcome |-> "generated",
              calls |-> made \cup {<<"research_agent", "ok">>},
              doc |-> d]

\* TextEditor._modify_text
modify_text(selected_text, document_text, modified, made, doc) ==
    IF IsBlank(selected_text)
    THEN [ret |-> <<document_text, format_footnotes(doc)>>,
          outcome |-> "nothing_selected", calls |-> made, doc |-> doc]
    ELSE IF modified = Raised
    THEN Raises(made \cup Called("modification_agent", modified), doc)
    ELSE [ret |-> <<modified, format_footnotes(doc)>>,
          outcome |-> "modified",
          calls |-> made \cup Called("modification_agent", modified),
          doc |-> doc]

\* (mutation) the modified text is returned to the source area
execute_action_ModifiedToSource(multimodal_input, source_text, context_text, modification_text, selected_panel, transcripts, research, modified, doc) ==
    LET Back(how, input, made) ==
            [ret |-> <<source_text, context_text, modification_text,
                       format_footnotes(doc), input>>,
             outcome |-> how, calls |-> made, doc |-> doc]
        x == extract_prompt_from_multimodal(multimodal_input, transcripts)
        text_to_modify ==
            IF context_text # <<>> THEN context_text ELSE modification_text
        g == generate_text(research, x.calls, doc)
        m == modify_text(text_to_modify, source_text, modified, x.calls, doc)
    IN  IF multimodal_input = NoInput
        THEN Back("no_input", multimodal_input, {})
        ELSE IF x.raised THEN Raises(x.calls, doc)
        ELSE IF x.prompt = <<>> THEN Back("no_prompt", ClearedInput, x.calls)
        ELSE IF selected_panel = "preparation"
        THEN IF g.outcome = "raised" THEN g
             ELSE [g EXCEPT !.ret = <<g.ret[1], context_text,
                                      modification_text, g.ret[2],
                                      ClearedInput>>]
        ELSE IF selected_panel = "modification"
        THEN IF ~IsBlank(context_text) \/ ~IsBlank(modification_text)
             THEN IF ~IsBlank(text_to_modify)
                  THEN IF m.outcome = "raised" THEN m
                       ELSE [m EXCEPT !.ret = <<m.ret[1], context_text,
                                                modification_text, m.ret[2],
                                                ClearedInput>>]
                  ELSE Back("nothing_to_modify", ClearedInput, x.calls)
             ELSE [ret |-> None, outcome |-> "fell_through",
                   calls |-> x.calls, doc |-> doc]
        ELSE Back("unknown_panel", ClearedInput, x.calls)

\* TextEditor.execute_action, the transcriber and the agents answering with
\* transcripts, research and modified
execute_action(multimodal_input, source_text, context_text, modification_text, selected_panel, transcripts, research, modified, doc) ==
    LET Back(how, input, made) ==
            [ret |-> <<source_text, context_text, modification_text,
                       format_footnotes(doc), input>>,
             outcome |-> how, calls |-> made, doc |-> doc]
        x == extract_prompt_from_multimodal(multimodal_input, transcripts)
        text_to_modify ==
            IF context_text # <<>> THEN context_text ELSE modification_text
        g == generate_text(research, x.calls, doc)
        m == modify_text(text_to_modify, source_text, modified, x.calls, doc)
    IN  IF multimodal_input = NoInput
        THEN Back("no_input", multimodal_input, {})
        ELSE IF x.raised THEN Raises(x.calls, doc)
        ELSE IF x.prompt = <<>> THEN Back("no_prompt", ClearedInput, x.calls)
        ELSE IF selected_panel = "preparation"
        THEN IF g.outcome = "raised" THEN g
             ELSE [g EXCEPT !.ret = <<g.ret[1], context_text,
                                      modification_text, g.ret[2],
                                      ClearedInput>>]
        ELSE IF selected_panel = "modification"
        THEN IF ~IsBlank(context_text) \/ ~IsBlank(modification_text)
             THEN IF ~IsBlank(text_to_modify)
                  THEN IF m.outcome = "raised" THEN m
                       ELSE [m EXCEPT !.ret = <<source_text, context_text,
                                                m.ret[1], m.ret[2],
                                                ClearedInput>>]
                  ELSE Back("nothing_to_modify", ClearedInput, x.calls)
             ELSE [ret |-> None, outcome |-> "fell_through",
                   calls |-> x.calls, doc |-> doc]
        ELSE Back("unknown_panel", ClearedInput, x.calls)

\* TextEditor.generate_from_url
generate_from_url(url, research, doc) ==
    LET g == generate_text(research, {}, doc)
    IN  IF IsBlank(url)
        THEN [ret |-> <<<<>>, format_footnotes(doc), <<>>>>,
              outcome |-> "no_url", calls |-> {}, doc |-> doc]
        ELSE IF g.outcome = "raised" THEN g
        ELSE [g EXCEPT !.ret = <<g.ret[1], g.ret[2], <<>>>>]

\* the rows of the footnotes table when the save button is pressed: none,
\* or the rows shown for the document with the Save boxes as the user has
\* left them
FootnotesDataFor(doc) ==
    LET rows == format_footnotes(doc)
    IN  {<<>>} \cup
        {[i \in 1..Len(rows) |-> <<flags[i], rows[i][2], rows[i][3]>>] :
            flags \in [1..Len(rows) -> BOOLEAN]}

\* save_preparation_document, lines 293-294: the references of the rows
\* whose Save box is ticked
SelectedFootnotes(footnotes_data) ==
    LET selected_rows == SelectSeq(footnotes_data, LAMBDA row : row[1])
    IN  [i \in 1..Len(selected_rows) |-> selected_rows[i][3]]

\* (mutation) the controller's document is handed to the store as it was
\* before the call
DocToSave_Stale(source_text, footnotes_data, doc) ==
    [text |-> doc.text,
     footnotes |-> IF footnotes_data # <<>>
                   THEN SelectedFootnotes(footnotes_data)
                   ELSE doc.footnotes]

\* save_preparation_document, lines 284-300: the copy handed to the store
DocToSave(source_text, footnotes_data, doc) ==
    [text |-> source_text,
     footnotes |-> IF footnotes_data # <<>>
                   THEN SelectedFootnotes(footnotes_data)
                   ELSE doc.footnotes]

\* TextEditor.save_preparation_document, the store answering the lookup of
\* the title with hit, or raising
save_preparation_document(filename, source_text, footnotes_data, stored, hit, doc, objects) ==
    IF IsBlank(filename)
    THEN [ret |-> None, outcome |-> "no_filename", calls |-> {},
          doc |-> doc, store |-> objects]
    ELSE IF IsBlank(source_text)
    THEN [ret |-> None, outcome |-> "empty_document", calls |-> {},
          doc |-> doc, store |-> objects]
    ELSE IF stored = "raised"
    THEN [ret |-> None, outcome |-> "raised",
          calls |-> {<<"store", "failed">>},
          doc |-> update_text(doc, source_text), store |-> objects]
    ELSE [ret |-> None, outcome |-> "saved", calls |-> {<<"store", "ok">>},
          doc |-> update_text(doc, source_text),
          store |-> save_document(objects,
                                  DocToSave(source_text, footnotes_data, doc),
                                  filename, hit)]

\* load_document_to_preparation, lines 238-241: the title looked up for the
\* entry selected in the dropdown
Filename(display_name) ==
    LET cuts == {i \in 1..(Len(display_name) - 1) :
                    display_name[i] = " " /\ display_name[i + 1] = "("}
    IN  IF cuts = {} THEN display_name
        ELSE SubSeq(display_name, 1,
                    (CHOOSE i \in cuts : \A k \in cuts : i <= k) - 1)

\* TextEditor.load_document_to_preparation
load_document_to_preparation(display_name, stored, hit, doc, objects) ==
    LET loaded == load_document(objects, Filename(display_name), hit)
    IN  IF display_name = <<>>
        THEN [ret |-> <<<<>>, format_footnotes(doc)>>,
              outcome |-> "no_selection", calls |-> {}, doc |-> doc]
        ELSE IF stored = "raised"
        THEN Raises({<<"store", "failed">>}, doc)
        ELSE IF loaded # NoDocument
        THEN [ret |-> <<loaded.text, format_footnotes(loaded)>>,
              outcome |-> "loaded", calls |-> {<<"store", "ok">>},
              doc |-> loaded]
        ELSE [ret |-> <<<<>>, format_footnotes(doc)>>,
              outcome |-> "not_found", calls |-> {<<"store", "ok">>},
              doc |-> doc]

\* TextEditor.search_documents, the store answering with found, or raising
search_documents(query, stored, found) ==
    IF IsBlank(query)
    THEN [ret |-> <<>>, outcome |-> "no_query", calls |-> {}]
    ELSE IF stored = "raised"
    THEN [ret |-> None, outcome |-> "raised",
          calls |-> {<<"store", "failed">>}]
    ELSE [ret |-> found, outcome |-> "searched",
          calls |-> {<<"store", "ok">>}]

\* the answers of the agents that can make a difference to a call: of the
\* research agent in the preparation panel, of the modification agent in
\* the modification panel
ResearchFor(selected_panel) ==
    IF selected_panel = "preparation" THEN ResearchResults
    ELSE {[raised |-> FALSE, text |-> <<>>, footnotes |-> <<>>]}

ModificationsFor(selected_panel) ==
    IF selected_panel = "modification" THEN ModificationResults ELSE {<<>>}

\* the uploads of the AI actions: an audio file and a file that is none,
\* there or not
Uploads == [exists : BOOLEAN, suffix : {".wav", ".txt"}]

RECURSIVE UploadListsOfLen(_)
UploadListsOfLen(n) ==
    IF n = 0 THEN {<<>>}
    ELSE {Append(l, f) : l \in UploadListsOfLen(n - 1), f \in Uploads}

UploadLists == UNION {UploadListsOfLen(k) : k \in 0..MaxFiles}

PanelInputs == [text : PromptTexts, files : UploadLists]

\* the multimodal textbox is submitted with one of Inputs, the text areas
\* holding texts of Sources, Contexts and Mods
ExecuteActionWith(Inputs, Sources, Contexts, Mods) ==
    /\ ServiceCall("execute_action")
    /\ \E multimodal_input \in Inputs,
          source_text \in Sources, context_text \in Contexts,
          modification_text \in Mods, selected_panel \in Panels :
         \E transcripts \in TranscriptsFor(multimodal_input.files),
            research \in ResearchFor(selected_panel),
            modified \in ModificationsFor(selected_panel) :
           LET r == execute_action(multimodal_input, source_text, context_text,
                                   modification_text, selected_panel,
                                   transcripts, research, modified, document)
           IN  /\ in_source' = source_text
               /\ in_text' = context_text
               /\ in_mod' = modification_text
               /\ in_extra' = <<multimodal_input, selected_panel>>
               /\ ret' = r.ret
               /\ outcome' = r.outcome
               /\ calls' = r.calls
               /\ document' = r.doc
               /\ UNCHANGED store

\* a URL is submitted while the source area shows the text shown; the
\* handler's first return value goes to the source area
GenerateFromUrl ==
    /\ ServiceCall("generate_from_url")
    /\ \E url \in PanelTexts, research \in ResearchResults,
          shown \in PanelTexts :
           LET r == generate_from_url(url, research, document)
           IN  /\ in_source' = <<>> /\ in_text' = <<>> /\ in_mod' = <<>>
               /\ in_extra' = <<url, shown>>
               /\ ret' = r.ret
               /\ outcome' = r.outcome
               /\ calls' = r.calls
               /\ document' = r.doc
               /\ UNCHANGED store

\* the save button is pressed, the file name being one of Names
SavePreparationDocumentWith(Names) ==
    /\ ServiceCall("save_preparation_document")
    /\ \E filename \in Names, source_text \in PanelTexts,
          footnotes_data \in FootnotesDataFor(document),
          stored \in StoreResults :
         \E hit \in Hits(store, filename) :
           LET r == save_preparation_document(filename, source_text,
                                              footnotes_data, stored, hit,
                                              document, store)
           IN  /\ Len(r.store) <= MaxObjects
               /\ in_source' = source_text
               /\ in_text' = <<>> /\ in_mod' = <<>>
               /\ in_extra' = <<filename, footnotes_data>>
               /\ ret' = r.ret
               /\ outcome' = r.outcome
               /\ calls' = r.calls
               /\ document' = r.doc
               /\ store' = r.store

\* the load button is pressed, the dropdown showing nothing or one of Names,
\* while the source area shows the text shown; the handler's first return
\* value goes to the source area
LoadDocumentToPreparationWith(Names) ==
    /\ ServiceCall("load_document_to_preparation")
    /\ \E display_name \in Names \cup {<<>>}, stored \in StoreResults,
          shown \in PanelTexts :
         \E hit \in Hits(store, Filename(display_name)) :
           LET r == load_document_to_preparation(display_name, stored, hit,
                                                 document, store)
           IN  /\ in_source' = <<>> /\ in_text' = <<>> /\ in_mod' = <<>>
               /\ in_extra' = <<display_name, shown>>
               /\ ret' = r.ret
               /\ outcome' = r.outcome
               /\ calls' = r.calls
               /\ document' = r.doc
               /\ UNCHANGED store

\* a search is submitted, the query being one of Names or blank
SearchDocumentsWith(Names) ==
    /\ ServiceCall("search_documents")
    /\ \E query \in Names \cup {<<>>}, stored \in StoreResults,
          found \in SearchAnswers(store) :
           LET r == search_documents(query, stored, found)
           IN  /\ in_source' = <<>> /\ in_text' = <<>> /\ in_mod' = <<>>
               /\ in_extra' = <<query>>
               /\ ret' = r.ret
               /\ outcome' = r.outcome
               /\ calls' = r.calls
               /\ UNCHANGED <<document, store>>

ExecuteAction ==
    ExecuteActionWith(PanelInputs \cup {NoInput}, PanelTexts, PanelTexts,
                      PanelTexts)
SavePreparationDocument == SavePreparationDocumentWith(PanelTexts)
LoadDocumentToPreparation == LoadDocumentToPreparationWith(PanelTexts)
SearchDocuments == SearchDocumentsWith(PanelTexts)

PanelCopyToContext == CopyToContextBy(Solo, PanelTexts, FALSE)
PanelApplyModified == ApplyModifiedBy(Solo, PanelTexts, PanelTexts)

NextActions ==
    \/ NewDocument
    \/ ClearDocument
    \/ PanelCopyToContext
    \/ PanelApplyModified
    \/ ExecuteAction
    \/ GenerateFromUrl
    \/ SavePreparationDocument
    \/ LoadDocumentToPreparation
    \/ SearchDocuments
    \/ NextEvent

SpecActions == Init /\ [][NextActions]_vars

\* the capture, modify, apply workflow: while a selection is captured the
\* source area holds the text it was captured from and the context area,
\* which the user cannot edit, the captured text; the prompt is typed
TypedInputs == [text : PromptTexts, files : {<<>>}]

SourceArea == IF captured_from = NoText THEN SourceTexts ELSE {captured_from}

ContextArea == IF captured = NoText THEN {<<>>} ELSE {captured}

WorkflowExecuteAction ==
    ExecuteActionWith(TypedInputs \cup {NoInput}, SourceArea, ContextArea,
                      ModTexts)

NextWorkflow ==
    \/ NewDocument
    \/ ClearDocument
    \/ FlowCopyToContext
    \/ WorkflowExecuteAction
    \/ ApplyModified
    \/ NextEvent

SpecWorkflow == Init /\ [][NextWorkflow]_vars

\* the store behind the save, load and search buttons: titles that are one
\* word, another word, and a word followed by an opening parenthesis, and
\* the entries no title and a blank title
Titles == {<<"a">>, <<"a", "a">>, <<"a", " ", "(">>}

TitleEntries == Titles \cup {<<>>, <<" ">>}

StoreSavePreparationDocument == SavePreparationDocumentWith(TitleEntries)
StoreLoadDocumentToPreparation == LoadDocumentToPreparationWith(Titles)
StoreSearchDocuments == SearchDocumentsWith(Titles)

NextStore ==
    \/ NewDocument
    \/ GenerateFromUrl
    \/ StoreSavePreparationDocument
    \/ StoreLoadDocumentToPreparation
    \/ StoreSearchDocuments
    \/ NextEvent

SpecStore == Init /\ [][NextStore]_vars

\* -------------------------------------------- the research agent's output
\* the stripped lines an output is made of: the ARTICLE: marker with and
\* without text after it, the other two markers, two citation lines, a line
\* of plain text and an empty line
Lines ==
    {"ARTICLE: a", "ARTICLE:", "CITATIONS:", "WORD_COUNT: 1", "[1] x",
     "[2] y", "a", ""}

RECURSIVE OutputsOfLen(_)
OutputsOfLen(n) ==
    IF n = 0 THEN {<<>>}
    ELSE {Append(o, l) : o \in OutputsOfLen(n - 1), l \in Lines}

\* the outputs of crew.kickoff(), split at the newlines
AgentOutputs == UNION {OutputsOfLen(k) : k \in 0..MaxLines}

\* line.startswith("ARTICLE:"), and line.replace("ARTICLE:", "").strip()
StartsWithArticle(line) == line \in {"ARTICLE: a", "ARTICLE:"}
ArticleText(line) == IF line = "ARTICLE: a" THEN <<"a">> ELSE <<>>

\* line.startswith("CITATIONS:"), ("WORD_COUNT:"), ("[")
StartsWithCitations(line) == line = "CITATIONS:"
StartsWithWordCount(line) == line = "WORD_COUNT: 1"
StartsWithBracket(line) == line \in {"[1] x", "[2] y"}

\* _parse_result, lines 176-180
DefaultCitations ==
    <<"[1] Generated by AI - https://openai.com",
      "[2] Research content - https://example.com">>

\* _parse_result, lines 132-145: the first pass over lines[1..n]; the
\* article is kept as the texts that are joined by blanks
RECURSIVE FirstPass(_, _)
FirstPass(lines, n) ==
    IF n = 0
    THEN [current_section |-> "none", article |-> <<>>, citations |-> <<>>]
    ELSE LET p == FirstPass(lines, n - 1)
             line == lines[n]
         IN  IF StartsWithArticle(line)
             THEN [p EXCEPT !.current_section = "article",
                            !.article = ArticleText(line)]
             ELSE IF StartsWithCitations(line)
             THEN [p EXCEPT !.current_section = "citations"]
             ELSE IF StartsWithWordCount(line) THEN p
             ELSE IF p.current_section = "article" /\ line # ""
             THEN [p EXCEPT !.article = Append(@, line)]
             ELSE IF p.current_section = "citations"
                     /\ StartsWithBracket(line)
             THEN [p EXCEPT !.citations = Append(@, line)]
             ELSE p

\* _parse_result, lines 153-160: the lines kept for the article by the
\* second pass over lines[1..n], and whether it has stopped at a marker
RECURSIVE ArticleLines(_, _)
ArticleLines(lines, n) ==
    IF n = 0 THEN [kept |-> <<>>, stopped |-> FALSE]
    ELSE LET a == ArticleLines(lines, n - 1)
             line == lines[n]
         IN  IF a.stopped THEN a
             ELSE IF StartsWithWordCount(line) \/ StartsWithCitations(line)
             THEN [a EXCEPT !.stopped = TRUE]
             ELSE IF line # "" \/ a.kept # <<>>
             THEN [a EXCEPT !.kept = Append(@, line)]
             ELSE a

\* '\n'.join(article_lines).strip(): the kept lines without the empty ones
\* at their end (there are none at their start)
RECURSIVE StripLines(_)
StripLines(kept) ==
    IF kept = <<>> THEN <<>>
    ELSE IF kept[Len(kept)] = "" THEN StripLines(SubSeq(kept, 1, Len(kept) - 1))
    ELSE kept

\* _parse_result, lines 165-172: the citations the second pass appends
RECURSIVE SecondPass(_, _)
SecondPass(lines, n) ==
    IF n = 0 THEN [citation_section |-> FALSE, citations |-> <<>>]
    ELSE LET p == SecondPass(lines, n - 1)
             line == lines[n]
         IN  IF StartsWithCitations(line)
             THEN [p EXCEPT !.citation_section = TRUE]
             ELSE IF p.citation_section /\ StartsWithBracket(line)
             THEN [p EXCEPT !.citations = Append(@, line)]
             ELSE p

\* not result.strip(): the output has no line or empty lines only
IsBlankOutput(lines) == \A i \in 1..Len(lines) : lines[i] = ""

\* TextPreparationAgent._parse_result: the text and the footnotes of the
\* result
parse_result(lines) ==
    LET first == FirstPass(lines, Len(lines))
        cited == first.citations \o SecondPass(lines, Len(lines)).citations
    IN  IF first.article = <<>> /\ ~IsBlankOutput(lines)
        THEN [text |-> StripLines(ArticleLines(lines, Len(lines)).kept),
              footnotes |-> IF cited = <<>> THEN DefaultCitations
                            ELSE cited,
              outcome |-> "unstructured"]
        ELSE [text |-> first.article,
              footnotes |-> first.citations,
              outcome |-> "structured"]

\* the research agent's crew has returned an output and generate_text
\* parses it
ParseResult ==
    /\ ServiceCall("_parse_result")
    /\ \E output \in AgentOutputs :
           LET r == parse_result(output)
           IN  /\ in_source' = <<>> /\ in_text' = <<>> /\ in_mod' = <<>>
               /\ in_extra' = <<output>>
               /\ ret' = <<r.text, r.footnotes>>
               /\ outcome' = r.outcome
               /\ calls' = {}
               /\ UNCHANGED <<document, store>>

NextParse ==
    \/ ParseResult
    \/ NextEvent

SpecParse == Init /\ [][NextParse]_vars

\* ----------------------------------------------------------------- claims
\* sub is a substring of s
IsSubstring(s, sub) == \E i \in 0..Len(s) : OccursAt(s, sub, i)

\* a handler has returned and it was h
Returned(h) == pc = "done" /\ op = h

\* apply_modified was called with offsets (a, b) valid for its source text
\* and with context_text = source_text[a:b]
RoundTripCall ==
    /\ Returned("apply_modified")
    /\ 0 <= pre_start /\ pre_start <= pre_end /\ pre_end <= Len(in_source)
    /\ in_text = Slice(in_source, pre_start, pre_end)

\* S[:a] + M + S[b:] for the call that returned
RoundTripText ==
    Prefix(in_source, pre_start) \o in_mod \o Suffix(in_source, pre_end)

\* C1 as stated: for every source text S, every 0 <= a <= b <= len(S) and
\* every modified text M, apply_modified(S, S[a:b], M) called with offsets
\* (a, b) returns S[:a] + M + S[b:].
C1_RoundTripAnyText == RoundTripCall => ret = RoundTripText

\* C1 amended: when S[a:b] and M are both non-blank, apply_modified(S,
\* S[a:b], M) called with offsets (a, b) returns S[:a] + M + S[b:].
C1_RoundTrip ==
    (RoundTripCall /\ ~IsBlank(in_text) /\ ~IsBlank(in_mod))
        => ret = RoundTripText

\* a splice that keeps text on both sides of the replaced span
C1_Witness ==
    /\ RoundTripCall /\ ~IsBlank(in_text) /\ ~IsBlank(in_mod)
    /\ pre_start > 0 /\ pre_end < Len(in_source)
    /\ ret = RoundTripText

\* copy_to_context was called with a non-empty source text and a substring
\* of it
SubstringCapture ==
    /\ Returned("copy_to_context")
    /\ in_source # <<>>
    /\ IsSubstring(in_source, in_text)

\* C2 as stated: for every non-empty source text and every substring sel of
\* it, copy_to_context(source, sel) stores offsets (start, end) with
\* source[start:end] = sel.
C2_CaptureAnySubstring ==
    SubstringCapture
        => Slice(in_source, selection_start, selection_end) = in_text

\* C2 amended: for every non-empty source text and every non-blank substring
\* sel of it, copy_to_context(source, sel) stores offsets (start, end) with
\* source[start:end] = sel.
C2_CaptureSubstring ==
    (SubstringCapture /\ ~IsBlank(in_text))
        => Slice(in_source, selection_start, selection_end) = in_text

\* a proper substring found after the start of the source text
C2_Witness ==
    /\ SubstringCapture /\ ~IsBlank(in_text)
    /\ in_text # in_source
    /\ selection_start > 0
    /\ Slice(in_source, selection_start, selection_end) = in_text

\* C3: when apply_modified is called with the context C returned by the
\* capture that stored the offsets (a, b) and with a source text such that
\* source[a:b] # C, it refuses and returns that source text as passed in.
C3_MismatchRefused ==
    (/\ Returned("apply_modified")
     /\ ctx_captured
     /\ Slice(in_source, pre_start, pre_end) # in_text)
        => (outcome \in Refusals /\ ret = in_source)

\* the changed source text still covers the offsets but holds other text
C3_Witness ==
    /\ Returned("apply_modified")
    /\ ctx_captured
    /\ pre_end <= Len(in_source)
    /\ ~IsBlank(in_mod)
    /\ Slice(in_source, pre_start, pre_end) # in_text
    /\ outcome = "mismatch"
    /\ ret = in_source

\* C4: every call of apply_modified returns (it raises nothing), and every
\* refusal (blank context, blank modified text, invalid indices, mismatch)
\* returns the source text argument unchanged.
C4_RefusalReturnsSource ==
    Returned("apply_modified")
        => /\ outcome \in Refusals \cup {"applied"}
           /\ outcome \in Refusals => ret = in_source

\* a refusal for invalid indices on a non-empty source text
C4_Witness ==
    /\ Returned("apply_modified")
    /\ outcome = "invalid_indices"
    /\ in_source # <<>>
    /\ ret = in_source

\* C5: the offsets are (0, 0) right after new_document, after
\* clear_document and after every successful apply_modified.
C5_OffsetsReset ==
    (\/ Returned("new_document")
     \/ Returned("clear_document")
     \/ Returned("apply_modified") /\ outcome = "applied")
        => (selection_start = 0 /\ selection_end = 0)

\* a successful apply_modified that was called with non-zero offsets
C5_Witness ==
    /\ Returned("apply_modified")
    /\ outcome = "applied"
    /\ pre_start > 0
    /\ selection_start = 0 /\ selection_end = 0

\* C6: right after a successful apply_modified, a second apply_modified
\* called with the same context text refuses, whatever source text and
\* modified text it is given.
C6_SecondApplyRefused ==
    (Returned("apply_modified") /\ ctx_applied) => outcome \in Refusals

\* the second call passes the blank tests and the index test and is refused
\* by the verification of the region
C6_Witness ==
    /\ Returned("apply_modified")
    /\ ctx_applied
    /\ in_source # <<>>
    /\ outcome = "mismatch"

\* copy_to_context was called with an empty or whitespace-only selection
BlankSelectionCapture ==
    Returned("copy_to_context") /\ IsBlank(in_text)

\* the whole source text was captured
FullTextCaptured ==
    /\ selection_start = 0
    /\ selection_end = Len(in_source)
    /\ ret = in_source

\* C7 as stated: for every source text, copy_to_context(source, sel) with an
\* empty or whitespace-only sel stores offsets (0, len(source)) and returns
\* a context equal to source.
C7_FallbackAnySource == BlankSelectionCapture => FullTextCaptured

\* C7 amended: for every source text that is not blank, copy_to_context(
\* source, sel) with an empty or whitespace-only sel stores offsets
\* (0, len(source)) and returns a context equal to source.
C7_Fallback ==
    (BlankSelectionCapture /\ ~IsBlank(in_source)) => FullTextCaptured

\* a whitespace-only selection falls back to the full text and replaces
\* offsets left by an earlier capture
C7_Witness ==
    /\ BlankSelectionCapture
    /\ in_text # <<>>
    /\ ~IsBlank(in_source)
    /\ pre_start > 0
    /\ FullTextCaptured

\* C8: when the non-blank selected text does not occur in the source text,
\* copy_to_context stores offsets (0, len(source)) and returns the whole
\* source text as context.
C8_NotFoundFallback ==
    (/\ Returned("copy_to_context")
     /\ ~IsBlank(in_text)
     /\ ~IsSubstring(in_source, in_text))
        => FullTextCaptured

\* the selection is missing from a non-blank source text
C8_Witness ==
    /\ Returned("copy_to_context")
    /\ ~IsBlank(in_text)
    /\ ~IsBlank(in_source)
    /\ ~IsSubstring(in_source, in_text)
    /\ outcome = "not_found"
    /\ FullTextCaptured

\* C9: after every copy_to_context that does not signal "nothing to copy",
\* 0 <= start <= end <= len(source) and source[start:end] is the returned
\* context text.
C9_CaptureOffsetsValid ==
    (Returned("copy_to_context") /\ outcome # "nothing_to_copy")
        => /\ 0 <= selection_start
           /\ selection_start <= selection_end
           /\ selection_end <= Len(in_source)
           /\ Slice(in_source, selection_start, selection_end) = ret

\* a selection captured strictly inside the source text
C9_Witness ==
    /\ Returned("copy_to_context")
    /\ outcome = "selection"
    /\ 0 < selection_start
    /\ selection_end < Len(in_source)
    /\ Slice(in_source, selection_start, selection_end) = ret

\* C10: when the source text passed to apply_modified is shorter than the
\* stored end offset and the context passed is the one returned by the
\* capture that stored the offsets, apply_modified refuses.
C10_ShortSourceRefused ==
    (/\ Returned("apply_modified")
     /\ ctx_captured
     /\ pre_end > Len(in_source))
        => outcome \in Refusals

\* the start offset is still inside the shortened source text, the end
\* offset is clamped, and the verification of the region refuses
C10_Witness ==
    /\ Returned("apply_modified")
    /\ ctx_captured
    /\ pre_start < Len(in_source)
    /\ pre_end > Len(in_source)
    /\ outcome = "mismatch"

\* C11: apply_modified reports the first precondition that fails: a blank
\* context gives "no context" whatever the modified text and the offsets
\* are; with a context, a blank modified text gives "no modified text"
\* whatever the offsets are; with both, a start offset at or past the end of
\* the source text gives "invalid indices" whether or not the region matches.
C11_CheckOrder ==
    Returned("apply_modified")
        => /\ IsBlank(in_text) => outcome = "no_context"
           /\ (~IsBlank(in_text) /\ IsBlank(in_mod))
                  => outcome = "no_modified"
           /\ (/\ ~IsBlank(in_text) /\ ~IsBlank(in_mod)
               /\ pre_start >= Len(in_source))
                  => outcome = "invalid_indices"

\* context and modified text are both blank and the offsets are invalid
\* for the source text: the "no context" refusal wins
C11_Witness ==
    /\ Returned("apply_modified")
    /\ IsBlank(in_text) /\ IsBlank(in_mod)
    /\ pre_start > 0 /\ pre_start >= Len(in_source)
    /\ outcome = "no_context"

\* C12: with non-blank context and modified text, apply_modified refuses
\* with "invalid indices" exactly when the stored start is negative or
\* start >= len(source); so it always does on an empty source text.
C12_InvalidIndices ==
    (Returned("apply_modified") /\ ~IsBlank(in_text) /\ ~IsBlank(in_mod))
        => /\ outcome = "invalid_indices"
                  <=> (pre_start < 0 \/ pre_start >= Len(in_source))
           /\ in_source = <<>> => outcome = "invalid_indices"

\* the stored start is exactly the length of a non-empty source text
C12_Witness ==
    /\ Returned("apply_modified")
    /\ ~IsBlank(in_text) /\ ~IsBlank(in_mod)
    /\ in_source # <<>>
    /\ pre_start = Len(in_source)
    /\ outcome = "invalid_indices"

\* the span a capture of sel in source selects, from its arguments alone
CaptureSpan(source, sel) ==
    IF ~IsBlank(sel) /\ IsSubstring(source, sel)
    THEN LET first == CHOOSE i \in 0..Len(source) :
                          /\ OccursAt(source, sel, i)
                          /\ \A j \in 0..(i - 1) : ~OccursAt(source, sel, j)
         IN  <<first, first + Len(sel)>>
    ELSE <<0, Len(source)>>

\* C14 as stated: after every copy_to_context the stored offsets are those
\* of that call and depend on its arguments only.
C14_LastCallWins ==
    Returned("copy_to_context")
        => <<selection_start, selection_end>>
               = CaptureSpan(in_source, in_text)

\* C14 amended: after every copy_to_context that does not signal "nothing
\* to copy" the stored offsets are those of that call and depend on its
\* arguments only; a call that signals "nothing to copy" leaves the offsets
\* of the call before.
C14_LastStoringCallWins ==
    Returned("copy_to_context")
        => IF outcome = "nothing_to_copy"
           THEN selection_start = pre_start /\ selection_end = pre_end
           ELSE <<selection_start, selection_end>>
                    = CaptureSpan(in_source, in_text)

\* a capture overwrites the different offsets an earlier capture left
C14_Witness ==
    /\ Returned("copy_to_context")
    /\ outcome = "full_text"
    /\ pre_start > 0
    /\ pre_end # Len(in_source)
    /\ <<selection_start, selection_end>> = CaptureSpan(in_source, in_text)

\* what copy_to_context does when it has nothing to copy (nothing == TRUE)
\* and when it has
NothingToCopyIff(nothing) ==
    IF nothing
    THEN /\ outcome = "nothing_to_copy"
         /\ ret = <<>>
         /\ selection_start = pre_start /\ selection_end = pre_end
    ELSE /\ outcome # "nothing_to_copy"
         /\ ret \in {in_text, in_source}
         /\ captured = ret
         /\ selection_end - selection_start = Len(ret)

\* C15 as stated: copy_to_context signals "nothing to copy" (empty context,
\* nothing captured) when the selected text is blank and the source text is
\* empty; in every other case it returns the resolved context text and
\* stores offsets.
C15_NothingOnEmptySource ==
    Returned("copy_to_context")
        => NothingToCopyIff(IsBlank(in_text) /\ in_source = <<>>)

\* C15 amended: copy_to_context signals "nothing to copy" (empty context,
\* nothing captured) when the selected text is blank and the source text is
\* blank (empty or whitespace only); in every other case it returns the
\* resolved context text and stores offsets.
C15_NothingOnBlankSource ==
    Returned("copy_to_context")
        => NothingToCopyIff(IsBlank(in_text) /\ IsBlank(in_source))

\* "nothing to copy" on a whitespace-only source text, offsets of an
\* earlier capture kept
C15_Witness ==
    /\ Returned("copy_to_context")
    /\ IsBlank(in_text)
    /\ in_source # <<>> /\ IsBlank(in_source)
    /\ pre_end > 0
    /\ NothingToCopyIff(TRUE)

\* C20: with offsets (0, 0) apply_modified refuses whatever its arguments
\* are; it succeeds only when a capture has stored offsets with end > start.
C20_EmptyRefuses ==
    [][(pc = "idle" /\ op' = "apply_modified")
          => /\ (selection_start = 0 /\ selection_end = 0)
                    => outcome' \in Refusals
             /\ outcome' = "applied"
                    => (captured # NoText /\ selection_end > selection_start)
      ]_vars

\* with offsets (0, 0), non-blank texts and a non-empty source text the
\* verification of the region refuses
C20_Witness ==
    /\ Returned("apply_modified")
    /\ pre_start = 0 /\ pre_end = 0
    /\ ~IsBlank(in_text) /\ ~IsBlank(in_mod)
    /\ IsSubstring(in_source, in_text)
    /\ outcome = "mismatch"

\* the lowest index at which sub occurs in s (sub occurs in s)
FirstOccurrence(s, sub) ==
    CHOOSE i \in 0..Len(s) :
        /\ OccursAt(s, sub, i)
        /\ \A j \in 0..(i - 1) : ~OccursAt(s, sub, j)

\* apply_modified was called with the source text and the context of the
\* capture that set the offsets
AppliedToCapture ==
    /\ Returned("apply_modified")
    /\ src_captured
    /\ ctx_captured

\* C13: when the selected text is found in the source text, copy_to_context
\* stores the smallest index at which it occurs, and an apply_modified
\* that succeeds on the same source text and the captured context replaces
\* the first occurrence of that context.
C13_FirstOccurrence ==
    /\ (Returned("copy_to_context") /\ outcome = "selection")
           => selection_start = FirstOccurrence(in_source, in_text)
    /\ (AppliedToCapture /\ outcome = "applied")
           => LET first == FirstOccurrence(in_source, in_text)
              IN  ret = Prefix(in_source, first) \o in_mod
                            \o Suffix(in_source, first + Len(in_text))

\* the captured context occurs twice in the source text and the splice
\* replaced the first occurrence
C13_Witness ==
    /\ AppliedToCapture /\ outcome = "applied"
    /\ Cardinality({i \in 0..Len(in_source) :
                        OccursAt(in_source, in_text, i)}) > 1
    /\ pre_start = FirstOccurrence(in_source, in_text)

\* C16: when copy_to_context(S, sel) has not signalled "nothing to copy",
\* apply_modified called with the same S, the returned context and a
\* non-blank modified text M succeeds and returns S[:start] + M + S[end:]
\* for the offsets the capture stored.
C16_CaptureThenSplice ==
    (AppliedToCapture /\ ~IsBlank(in_mod))
        => /\ outcome = "applied"
           /\ ret = Prefix(in_source, pre_start) \o in_mod
                        \o Suffix(in_source, pre_end)

\* C19: the offsets are private to a session: the offsets an apply_modified
\* reads (it reads them once context and modified text are non-blank) were
\* stored by a capture of the same session, or are the reset ones.
C19_PrivateOffsets ==
    [][(/\ pc = "idle"
        /\ op' = "apply_modified"
        /\ outcome' \in {"invalid_indices", "mismatch", "applied"})
          => owner \in {NoSession, session'}
      ]_vars

\* the call that returned has called the external transcriber
TranscriberCalled == \E c \in calls : c[1] = "transcriber"

\* C18: process_audio_file calls the transcriber only when the file exists
\* and its lower-cased suffix is a supported format; otherwise it returns
\* None without calling it.  _extract_prompt_from_multimodal, which passes the
\* uploaded files to it, calls the transcriber only when one of them is such
\* a file.
C18_TranscriptionGated ==
    /\ Returned("process_audio_file")
         => /\ TranscriberCalled => Allowed(in_extra[1])
            /\ ~Allowed(in_extra[1]) => ret = None /\ ~TranscriberCalled
    /\ Returned("_extract_prompt_from_multimodal")
         => (TranscriberCalled
               => \E i \in 1..Len(in_extra[1].files) :
                      Allowed(in_extra[1].files[i]))

\* a file whose suffix is supported only once lower-cased has been
\* transcribed
C18_Witness ==
    /\ Returned("process_audio_file")
    /\ in_extra[1].suffix = ".WAV"
    /\ Allowed(in_extra[1])
    /\ outcome = "transcribed"
    /\ ~IsBlank(ret)

\* an external call made by the call that returned has failed
ExternalFailure == \E c \in calls : c[2] = "failed"

\* C17: when an external call made by an operation fails (research agent,
\* modification agent, document store, transcriber), no exception escapes
\* the handler, the controller's document and the selection offsets are as
\* they were before, and execute_action returns the source, context and
\* modification texts it was given.
C17_FailureContained ==
    (pc = "done" /\ ExternalFailure)
        => /\ outcome # "raised"
           /\ document = pre_doc
           /\ selection_start = pre_start
           /\ selection_end = pre_end
           /\ op = "execute_action"
                => /\ Len(ret) = 5
                   /\ ret[1] = in_source
                   /\ ret[2] = in_text
                   /\ ret[3] = in_mod

\* apply_modified has refused, or copy_to_context had nothing to copy
RefusedCall ==
    \/ Returned("apply_modified") /\ outcome \in Refusals
    \/ Returned("copy_to_context") /\ outcome = "nothing_to_copy"

\* a non-blank selection is captured, and apply_modified called now with the
\* source text it was captured from, the captured context and any non-blank
\* modified text replaces it
CaptureStillApplies ==
    (captured # NoText /\ ~IsBlank(captured))
        => \A m \in ModTexts :
             ~IsBlank(m)
               => LET r == apply_modified(captured_from, captured, m,
                                          selection_start, selection_end,
                                          document)
                  IN  /\ r.outcome = "applied"
                      /\ r.ret = Prefix(captured_from, selection_start) \o m
                                   \o Suffix(captured_from, selection_end)

\* C21: a refused apply_modified and a copy_to_context that signals "nothing
\* to copy" leave the selection offsets and the document text as they were,
\* and a non-blank captured selection can still be applied afterwards.
C21_RefusalKeepsSelection ==
    RefusedCall
        => /\ selection_start = pre_start
           /\ selection_end = pre_end
           /\ document.text = pre_doc.text
           /\ CaptureStillApplies

\* a refusal while a selection inside a document that has been edited is
\* captured
C21_Witness ==
    /\ RefusedCall
    /\ captured # NoText /\ ~IsBlank(captured)
    /\ 0 < selection_start
    /\ document.text # <<>>

\* the call that returned has changed a selection offset
OffsetsChanged == selection_start # pre_start \/ selection_end # pre_end

\* C22: only copy_to_context, a successful apply_modified, new_document and
\* clear_document change the selection offsets; execute_action,
\* load_document_to_preparation, generate_from_url, save_preparation_document
\* and search_documents leave them as they were.
C22_OffsetsFrame ==
    (pc = "done" /\ OffsetsChanged)
        => \/ op \in {"copy_to_context", "new_document", "clear_document"}
           \/ op = "apply_modified" /\ outcome = "applied"

\* a document is loaded over the controller's document while a selection is
\* captured
C22_Witness ==
    /\ Returned("load_document_to_preparation")
    /\ outcome = "loaded"
    /\ document # pre_doc
    /\ selection_end > 0
    /\ ~OffsetsChanged

\* C23: in every reachable state 0 <= selection_start <= selection_end, so
\* apply_modified is never called with a negative offset and the negative
\* tests of its index check are never true.
C23_OffsetsOrdered ==
    /\ 0 <= selection_start
    /\ selection_start <= selection_end
    /\ Returned("apply_modified") => ~(pre_start < 0 \/ pre_end < 0)

\* the index check has passed for offsets inside the source text, after an
\* earlier splice had reset them
C23_Witness ==
    /\ Returned("apply_modified")
    /\ outcome = "applied"
    /\ 0 < pre_start /\ pre_start < pre_end
    /\ pre_doc.text # <<>>

\* execute_action was called in modification mode with the source text and
\* the non-blank context of the capture that set the offsets
ModifyCall ==
    /\ Returned("execute_action")
    /\ in_extra[2] = "modification"
    /\ captured # NoText /\ ~IsBlank(captured)
    /\ in_text = captured
    /\ in_source = captured_from

\* C24: after a capture with non-blank context, execute_action in
\* modification mode, whenever it returns, returns the source text and the
\* context text it was given and leaves offsets and document alone, so that
\* apply_modified called next with the returned texts, the modified text
\* being non-blank, succeeds and replaces exactly the captured span.
C24_WorkflowCompletes ==
    (ModifyCall /\ outcome # "raised")
        => /\ Len(ret) = 5
           /\ ret[1] = in_source
           /\ ret[2] = in_text
           /\ ret[3] \in {in_mod} \cup ModificationResults
           /\ ~OffsetsChanged
           /\ document = pre_doc
           /\ Slice(in_source, selection_start, selection_end) = captured
           /\ ~IsBlank(ret[3])
                => LET r == apply_modified(ret[1], ret[2], ret[3],
                                           selection_start, selection_end,
                                           document)
                   IN  /\ r.outcome = "applied"
                       /\ r.ret = Prefix(in_source, selection_start)
                                    \o ret[3]
                                    \o Suffix(in_source, selection_end)

\* the agent has returned a non-blank modified text for a selection that
\* has text on both sides
C24_Witness ==
    /\ ModifyCall
    /\ outcome = "modified"
    /\ ~IsBlank(ret[3])
    /\ 0 < selection_start
    /\ selection_end < Len(in_source)

\* C25: execute_action returns five elements (source, context, modification,
\* footnotes, input) on every path on which it returns, and when it has
\* neither generated nor modified, the source, context and modification
\* texts it returns are the ones passed in.
C25_FiveElements ==
    (Returned("execute_action") /\ outcome # "raised")
        => /\ Len(ret) = 5
           /\ outcome \notin {"generated", "modified"}
                => /\ ret[1] = in_source
                   /\ ret[2] = in_text
                   /\ ret[3] = in_mod

\* load_document_to_preparation had no selection or found no document, or
\* generate_from_url had a blank URL
NothingLoaded ==
    \/ /\ Returned("load_document_to_preparation")
       /\ outcome \in {"no_selection", "not_found"}
    \/ /\ Returned("generate_from_url")
       /\ outcome = "no_url"

\* C26: when load_document_to_preparation is given no selection or finds no
\* document with the title, and when generate_from_url is given a blank URL,
\* the controller's document is the one it was and the text the handler
\* sends to the source area is the text the source area showed.
C26_NothingLoadedKeepsSource ==
    NothingLoaded
        => /\ document = pre_doc
           /\ ret[1] = in_extra[2]

\* the object stored under title for the source text and the footnotes the
\* save was called with
SavedObject(title, source_text, footnotes_data, doc) ==
    [title |-> title,
     content |-> source_text,
     footnotes |-> IF footnotes_data # <<>>
                   THEN SelectedFootnotes(footnotes_data)
                   ELSE doc.footnotes]

\* C27: save_preparation_document with a blank filename or a blank source
\* text calls the store not at all and leaves the document's text and
\* footnotes alone; with both non-blank it sets the document's text to the
\* source text and, when the store call returns, the store holds a copy
\* whose text is the source text, every other object being as it was.
C27_SaveStoresSource ==
    [][(pc = "idle" /\ op' = "save_preparation_document")
         => IF IsBlank(in_extra'[1]) \/ IsBlank(in_source')
            THEN /\ calls' = {}
                 /\ store' = store
                 /\ document' = document
            ELSE /\ document'.text = in_source'
                 /\ document'.footnotes = document.footnotes
                 /\ calls' # {}
                 /\ outcome' = "raised" => store' = store
                 /\ outcome' # "raised"
                      => \E i \in 1..Len(store') :
                           /\ store'[i] = SavedObject(in_extra'[1],
                                                      in_source',
                                                      in_extra'[2],
                                                      document)
                           /\ i <= Len(store) =>
                                /\ Len(store') = Len(store)
                                /\ store[i].title = in_extra'[1]
                           /\ i > Len(store) => Len(store') = Len(store) + 1
                           /\ \A k \in 1..Len(store) :
                                k # i => store'[k] = store[k]
      ]_vars

\* a save has replaced a stored object by a copy with another text while
\* another object is in the store
C27_Witness ==
    /\ Returned("save_preparation_document")
    /\ outcome = "saved"
    /\ pre_doc.text # in_source
    /\ Len(store) = 2
    /\ store[1].title # store[2].title
    /\ \E i \in 1..2 : store[i].title = in_extra[1]
                          /\ store[i].content = in_source

\* the positions of the stored objects with the title
StoredUnder(title) == {i \in 1..Len(store) : store[i].title = title}

\* C28: for every title T, once a document is saved under T, selecting T in
\* the load dropdown loads a document whose text and footnotes are the
\* saved ones, and saving again under T updates the stored object, so that
\* no two stored objects have the same title.
C28_SaveLoadRoundTrip ==
    /\ \A i, j \in 1..Len(store) :
         store[i].title = store[j].title => i = j
    /\ (/\ Returned("load_document_to_preparation")
        /\ outcome # "raised"
        /\ StoredUnder(in_extra[1]) # {})
         => /\ outcome = "loaded"
            /\ \E i \in StoredUnder(in_extra[1]) :
                 /\ document.text = store[i].content
                 /\ document.footnotes = store[i].footnotes
                 /\ ret[1] = store[i].content

\* the lines of lines[1..n] that start with "[" and follow a CITATIONS:
\* marker
RECURSIVE CitationLines(_, _)
CitationLines(lines, n) ==
    IF n = 0 THEN <<>>
    ELSE IF /\ StartsWithBracket(lines[n])
            /\ \E k \in 1..(n - 1) : StartsWithCitations(lines[k])
    THEN Append(CitationLines(lines, n - 1), lines[n])
    ELSE CitationLines(lines, n - 1)

\* C29: for a non-empty output _parse_result returns the lines that start
\* with "[" and follow the CITATIONS: marker as footnotes, and the two
\* default citations when there is no such line, so that the footnotes are
\* never empty.
C29_DefaultCitations ==
    (Returned("_parse_result") /\ ~IsBlankOutput(in_extra[1]))
        => LET cited == CitationLines(in_extra[1], Len(in_extra[1]))
           IN  /\ ret[2] # <<>>
               /\ ret[2] = IF cited = <<>> THEN DefaultCitations ELSE cited

====
